---- MODULE Spec2Model ----
(***************************************************************************)
(* StableDiffusionPipelineCustom.__call__                                  *)
(* (src/parrot_tools/generate/stable_diffusion_pipeline.py).               *)
(*                                                                         *)
(* One generation request is a record `rq[r]` holding the arguments of the *)
(* call, its local variables and its position in __call__.  The pipeline   *)
(* object (self) is the shared state: the scheduler's timesteps/sigmas,    *)
(* the device the modules live on and the warnings emitted.                *)
(*                                                                         *)
(* Numbers: init_strength is the rational init_strength/StrengthDen and    *)
(* guidance_scale the rational guidance_scale/2, both exact in binary      *)
(* floating point for the values used.  Latents are vectors (one entry per *)
(* batch element) of integers modulo LatentMod; the collaborators (text    *)
(* encoder, vae, unet, scheduler) are fixed functions of their arguments.  *)
(***************************************************************************)
EXTENDS Integers, Sequences, FiniteSets, TLC

\* largest num_inference_steps drawn
MaxSteps == 3
\* init_strength is drawn as k / StrengthDen
StrengthDen == 4
\* latent entries are integers modulo LatentMod
LatentMod == 5

VARIABLES rq, scheduler, device, warned, cfg

vars == <<rq, scheduler, device, warned, cfg>>

Min(a, b) == IF a < b THEN a ELSE b

Max(a, b) == IF a > b THEN a ELSE b

\* init_timestep before line 173 has run: the local is not bound
Unbound == -1

NoError == [type |-> "none", about |-> "", value |-> <<>>]

\* ------------------------------------------------------------------------
\* collaborators, as functions of their arguments

\* tokenizer + text_encoder on one prompt; prompt 0 is the empty prompt ""
TextEncoder(tok) == 2 * tok + 1

Prompts(q) == IF q.prompt = "str" THEN <<1>> ELSE <<1, 2>>

\* scheduler.set_timesteps(n, offset): a descending schedule of length n
Timesteps(n, offset) == [j \in 1..n |-> (n - j) + offset]

\* LMSDiscreteScheduler.sigmas: n + 1 descending entries, the last one 0
Sigmas(n) == [j \in 1..(n + 1) |-> (n + 1) - j]

\* unet(x, t, encoder_hidden_states = e)["sample"] on one batch element
UnetSample(x, t, e) == 2 * ((x + t + 3 * e) % LatentMod)

\* unet on a batch
Unet(xs, t, es) == [j \in 1..Len(xs) |-> UnetSample(xs[j], t, es[j])]

\* scheduler.step(noise_pred, t, latents, eta)["prev_sample"]
SchedulerStepFn(np, t, lat, eta) ==
    [j \in 1..Len(lat) |-> (lat[j] + np[j] + t + eta) % LatentMod]

\* scheduler.add_noise(latents, noise, level)
AddNoise(lat, noise, level) ==
    [j \in 1..Len(lat) |-> (lat[j] + noise[j] * level) % LatentMod]

\* torch.randn(..., generator = generator): fixed by the seeded generator
Randn(b) == [j \in 1..b |-> j]

\* vae.encode(init_image).sample() of the seed image
EncodedImage == <<2>>

\* Python indexing seq[idx] of a 0-based sequence, negative idx from the end
PyPos(seq, idx) == IF idx < 0 THEN Len(seq) + idx ELSE idx

PyInRange(seq, idx) == PyPos(seq, idx) >= 0 /\ PyPos(seq, idx) < Len(seq)

PyIndex(seq, idx) == seq[PyPos(seq, idx) + 1]

\* Python slice seq[start:]
PySliceFrom(seq, start) ==
    IF start >= Len(seq) THEN <<>> ELSE SubSeq(seq, start + 1, Len(seq))

\* ------------------------------------------------------------------------
\* the arguments of a call

PromptKinds == {"str", "list", "int"}

\* torch_device: not given, None (cuda when available) or "cpu"
TorchDeviceOpts == {"absent", "None", "cpu"}

Sizes == {12, 16}

InitImageKinds == {"none", "pil", "tensor"}

Strengths == (-1)..(StrengthDen + 1)

StepCounts == 0..MaxSteps

\* 1.0, 1.5 and 7.5, in halves
GuidanceScales == {2, 3, 15}

Args ==
    [prompt : PromptKinds, torch_device : TorchDeviceOpts, height : Sizes,
     width : Sizes, init_image : InitImageKinds, init_strength : Strengths,
     num_inference_steps : StepCounts, guidance_scale : GuidanceScales,
     eta : {0}]

\* the calls of two requests that run interleaved: valid seed-image calls
InterleavedArgs ==
    [prompt : {"str"}, torch_device : {"absent"}, height : {16},
     width : {16}, init_image : {"tensor"},
     init_strength : {StrengthDen \div 2, StrengthDen},
     num_inference_steps : 1..MaxSteps, guidance_scale : {3}, eta : {0}]

\* the locals of __call__ before its first statement
Locals ==
    [pc |-> "not_started", err |-> NoError, batch_size |-> 0,
     text_embeddings |-> <<>>, do_classifier_free_guidance |-> FALSE,
     offset |-> 0, init_timestep |-> Unbound, noise_index |-> Unbound,
     init_latents |-> <<>>, latents |-> <<>>, t_start |-> 0,
     loop_timesteps |-> <<>>, i |-> 0, t |-> 0, t_index |-> 0,
     latent_model_input |-> <<>>, noise_pred |-> <<>>,
     step_args |-> <<>>, step_outs |-> <<>>, log |-> <<>>]

NewRequest(a) == [f \in (DOMAIN a) \cup (DOMAIN Locals) |->
                    IF f \in DOMAIN a THEN a[f] ELSE Locals[f]]

Configs ==
    [isLMS : BOOLEAN, accepts_offset : BOOLEAN, accepts_eta : BOOLEAN,
     cuda_available : BOOLEAN]

InitShared ==
    /\ cfg \in Configs
    /\ scheduler = [timesteps |-> <<>>, sigmas |-> <<>>]
    /\ device = "cpu"
    /\ warned = FALSE

\* one request on the pipeline
Init ==
    /\ InitShared
    /\ \E a \in Args : rq = [r \in {1} |-> NewRequest(a)]

\* two requests on the same pipeline object
InitInterleaved ==
    /\ InitShared
    /\ \E a \in InterleavedArgs, b \in InterleavedArgs :
          rq = [r \in {1, 2} |-> NewRequest(IF r = 1 THEN a ELSE b)]

Requests == DOMAIN rq

Raise(q, type, about, value) ==
    [q EXCEPT !.pc = "error",
              !.err = [type |-> type, about |-> about, value |-> value]]

Called(q, names) == [q EXCEPT !.log = q.log \o names]

\* ------------------------------------------------------------------------
\* lines 88-115: the legacy torch_device option and the validation

HasInitImage(q) == q.init_image # "none"

TorchDeviceTarget(q) ==
    IF q.torch_device = "None"
    THEN (IF cfg.cuda_available THEN "cuda" ELSE "cpu")
    ELSE q.torch_device

\* the type check letting every prompt through
PromptInvalidNever(q) == FALSE

\* lines 97-104
PromptInvalid(q) == q.prompt \notin {"str", "list"}

\* line 106: `A and B or C` is `(A and B) or C`
HeightWidthInvalid(q) ==
    (HasInitImage(q) /\ q.height % 8 # 0) \/ q.width % 8 # 0

\* the range check with its lower bound forgotten
StrengthInvalidUpperOnly(q) ==
    HasInitImage(q) /\ q.init_strength > StrengthDen

\* lines 111-112
StrengthInvalid(q) ==
    HasInitImage(q) /\ (q.init_strength < 0 \/ q.init_strength > StrengthDen)

Validate(q) ==
    IF PromptInvalid(q)
    THEN Raise(q, "ValueError", "prompt", <<>>)
    ELSE IF HeightWidthInvalid(q)
    THEN Raise(q, "ValueError", "height_width", <<q.height, q.width>>)
    ELSE IF StrengthInvalid(q)
    THEN Raise(q, "ValueError", "init_strength", <<q.init_strength>>)
    ELSE [q EXCEPT !.pc = "validated",
                   !.batch_size = IF q.prompt = "str" THEN 1 ELSE 2]

Call(r) ==
    /\ rq[r].pc = "not_started"
    /\ IF rq[r].torch_device # "absent"
       THEN /\ warned' = TRUE
            /\ device' = TorchDeviceTarget(rq[r])
       ELSE UNCHANGED <<warned, device>>
    /\ rq' = [rq EXCEPT ![r] = Validate(rq[r])]
    /\ UNCHANGED <<scheduler, cfg>>

\* ------------------------------------------------------------------------
\* lines 117-147: the prompt embeddings

\* line 130
DoClassifierFreeGuidance(q) == q.guidance_scale > 2

CondEmbeddings(q) == [j \in 1..q.batch_size |-> TextEncoder(Prompts(q)[j])]

\* lines 134-142: [""] * batch_size
UncondEmbeddings(q) == [j \in 1..q.batch_size |-> TextEncoder(0)]

\* line 147: torch.cat([uncond_embeddings, text_embeddings])
CatEmbeddings(uncond, text) == uncond \o text

Embed(q) ==
    IF DoClassifierFreeGuidance(q)
    THEN [Called(q, <<"tokenizer", "text_encoder", "tokenizer", "text_encoder">>)
            EXCEPT !.pc = "embedded",
                   !.do_classifier_free_guidance = TRUE,
                   !.text_embeddings =
                       CatEmbeddings(UncondEmbeddings(q), CondEmbeddings(q))]
    ELSE [Called(q, <<"tokenizer", "text_encoder">>)
            EXCEPT !.pc = "embedded",
                   !.do_classifier_free_guidance = FALSE,
                   !.text_embeddings = CondEmbeddings(q)]

EncodePrompt(r) ==
    /\ rq[r].pc = "validated"
    /\ rq' = [rq EXCEPT ![r] = Embed(rq[r])]
    /\ UNCHANGED <<scheduler, device, warned, cfg>>

\* ------------------------------------------------------------------------
\* lines 149-159: the schedule is built on the pipeline's scheduler

\* lines 150-157
Offset == IF cfg.accepts_offset THEN 1 ELSE 0

SetTimesteps(r) ==
    /\ rq[r].pc = "embedded"
    /\ scheduler' =
         [timesteps |-> Timesteps(rq[r].num_inference_steps, Offset),
          sigmas |-> IF cfg.isLMS THEN Sigmas(rq[r].num_inference_steps)
                     ELSE <<>>]
    /\ rq' = [rq EXCEPT ![r] =
                [Called(rq[r], <<"set_timesteps">>)
                   EXCEPT !.pc = "scheduled", !.offset = Offset]]
    /\ UNCHANGED <<device, warned, cfg>>

\* ------------------------------------------------------------------------
\* lines 161-206: the initial latent

\* line 167: 0.18215 * init_latents
ScaleLatents(lat) == [j \in 1..Len(lat) |-> (3 * lat[j]) % LatentMod]

\* line 170: torch.cat([init_latents] * batch_size)
Expand(lat, b) == [j \in 1..b |-> lat[1]]

\* the starting timestep rounded half up instead of truncated
InitTimestepRounded(q, offset) ==
    Min((2 * q.num_inference_steps * q.init_strength + StrengthDen)
           \div (2 * StrengthDen) + offset,
        q.num_inference_steps)

\* lines 173-174; int() truncates, and the product is not negative here
InitTimestep(q, offset) ==
    Min((q.num_inference_steps * q.init_strength) \div StrengthDen + offset,
        q.num_inference_steps)

\* lines 175-185: the 0-based position add_noise reads the noise level at
NoiseIndex(q, init_timestep) ==
    IF cfg.isLMS
    THEN q.num_inference_steps - init_timestep
    ELSE PyPos(scheduler.timesteps, 0 - init_timestep)

NoiseLevels == IF cfg.isLMS THEN scheduler.sigmas ELSE scheduler.timesteps

SeedLatents(q) ==
    LET enc  == Called(q, IF q.init_image = "pil"
                          THEN <<"preprocess", "vae.encode">>
                          ELSE <<"vae.encode">>)
        it   == InitTimestep(q, q.offset)
        idx  == NoiseIndex(q, it)
        lat0 == Expand(ScaleLatents(EncodedImage), q.batch_size)
        q1   == [enc EXCEPT !.init_timestep = it]
    IN  IF ~ PyInRange(NoiseLevels, idx)
        THEN Raise(q1, "IndexError", "timesteps", <<idx>>)
        ELSE [Called(q1, <<"add_noise">>)
                EXCEPT !.pc = "latents_ready",
                       !.noise_index = idx,
                       !.init_latents =
                           AddNoise(lat0, Randn(q.batch_size),
                                    PyIndex(NoiseLevels, idx)),
                       !.latents =
                           AddNoise(lat0, Randn(q.batch_size),
                                    PyIndex(NoiseLevels, idx))]

\* lines 197-206
NoiseLatents(q) ==
    LET lat == IF cfg.isLMS
               THEN [j \in 1..q.batch_size |->
                       (Randn(q.batch_size)[j] * PyIndex(scheduler.sigmas, 0))
                          % LatentMod]
               ELSE Randn(q.batch_size)
    IN  IF cfg.isLMS /\ ~ PyInRange(scheduler.sigmas, 0)
        THEN Raise(q, "IndexError", "sigmas", <<0>>)
        ELSE [q EXCEPT !.pc = "latents_ready", !.init_latents = lat,
                       !.latents = lat]

PrepareLatents(r) ==
    /\ rq[r].pc = "scheduled"
    /\ rq' = [rq EXCEPT ![r] = IF HasInitImage(rq[r])
                               THEN SeedLatents(rq[r])
                               ELSE NoiseLatents(rq[r])]
    /\ UNCHANGED <<scheduler, device, warned, cfg>>

\* ------------------------------------------------------------------------
\* lines 208-220: the loop is entered over a slice of the scheduler's schedule

\* the loop start without the offset
TStartNoOffset(q) == Max(q.num_inference_steps - q.init_timestep, 0)

\* line 219
TStart(q) == Max(q.num_inference_steps - q.init_timestep + q.offset, 0)

BeginLoop(q) ==
    IF q.init_timestep = Unbound
    THEN Raise(q, "UnboundLocalError", "init_timestep", <<>>)
    ELSE [q EXCEPT !.pc = "running", !.t_start = TStart(q), !.i = 0,
                   !.loop_timesteps =
                       PySliceFrom(scheduler.timesteps, TStart(q))]

EnterLoop(r) ==
    /\ rq[r].pc = "latents_ready"
    /\ rq' = [rq EXCEPT ![r] = BeginLoop(rq[r])]
    /\ UNCHANGED <<scheduler, device, warned, cfg>>

\* ------------------------------------------------------------------------
\* lines 221-244: one noise prediction

\* line 224: torch.cat([latents] * 2)
LatentModelInput(q) ==
    IF q.do_classifier_free_guidance THEN q.latents \o q.latents
    ELSE q.latents

\* line 230: latent_model_input / ((sigma**2 + 1) ** 0.5)
ScaleModelInput(xs, sigma) ==
    [j \in 1..Len(xs) |-> (xs[j] + sigma) % LatentMod]

\* the two halves of the unet's output taken in the wrong order
GuideSwapped(q, out) ==
    IF q.do_classifier_free_guidance
    THEN LET b    == Len(out) \div 2
             text == SubSeq(out, 1, b)
             unc  == SubSeq(out, b + 1, 2 * b)
         IN  [j \in 1..b |->
                unc[j] + (q.guidance_scale * (text[j] - unc[j])) \div 2]
    ELSE out

\* lines 241-244; the unet's samples are even, so the halves are exact
Guide(q, out) ==
    IF q.do_classifier_free_guidance
    THEN LET b    == Len(out) \div 2
             unc  == SubSeq(out, 1, b)
             text == SubSeq(out, b + 1, 2 * b)
         IN  [j \in 1..b |->
                unc[j] + (q.guidance_scale * (text[j] - unc[j])) \div 2]
    ELSE out

Predict(q) ==
    LET t       == q.loop_timesteps[q.i + 1]
        t_index == q.t_start + q.i
        input   == IF cfg.isLMS
                   THEN ScaleModelInput(LatentModelInput(q),
                                        PyIndex(scheduler.sigmas, t_index))
                   ELSE LatentModelInput(q)
    IN  IF cfg.isLMS /\ ~ PyInRange(scheduler.sigmas, t_index)
        THEN Raise(q, "IndexError", "sigmas", <<t_index>>)
        ELSE [Called(q, <<"unet">>)
                EXCEPT !.pc = "predicted", !.t = t, !.t_index = t_index,
                       !.latent_model_input = input,
                       !.noise_pred =
                           Guide(q, Unet(input, t, q.text_embeddings))]

PredictNoise(r) ==
    /\ rq[r].pc = "running"
    /\ rq[r].i < Len(rq[r].loop_timesteps)
    /\ rq' = [rq EXCEPT ![r] = Predict(rq[r])]
    /\ UNCHANGED <<scheduler, device, warned, cfg>>

\* ------------------------------------------------------------------------
\* lines 246-254: one integrator step

\* lines 212-217: eta is passed only when step accepts it
EtaArg(q) == IF cfg.accepts_eta THEN q.eta ELSE 0

\* every step integrating from the initial latent
StepLatentArgInitial(q) == q.init_latents

\* the latent handed to scheduler.step
StepLatentArg(q) == q.latents

\* lines 247-254: the LMS integrator is stepped by index, the others by t
StepTimeArg(q) == IF cfg.isLMS THEN q.t_index ELSE q.t

Step(q) ==
    LET out == SchedulerStepFn(q.noise_pred, StepTimeArg(q),
                               StepLatentArg(q), EtaArg(q))
    IN  [Called(q, <<"scheduler.step">>)
           EXCEPT !.pc = "running", !.i = q.i + 1, !.latents = out,
                  !.step_args = Append(q.step_args, StepLatentArg(q)),
                  !.step_outs = Append(q.step_outs, out)]

SchedulerStep(r) ==
    /\ rq[r].pc = "predicted"
    /\ rq' = [rq EXCEPT ![r] = Step(rq[r])]
    /\ UNCHANGED <<scheduler, device, warned, cfg>>

\* ------------------------------------------------------------------------
\* lines 256-274: decoding and the safety checker

\* line 257: 1 / 0.18215 * latents
UnscaleLatents(lat) == [j \in 1..Len(lat) |-> (2 * lat[j]) % LatentMod]

Finish(q) ==
    [Called(q, <<"vae.decode", "feature_extractor", "safety_checker">>)
       EXCEPT !.pc = "completed", !.latents = UnscaleLatents(q.latents)]

Decode(r) ==
    /\ rq[r].pc = "running"
    /\ rq[r].i >= Len(rq[r].loop_timesteps)
    /\ rq' = [rq EXCEPT ![r] = Finish(rq[r])]
    /\ UNCHANGED <<scheduler, device, warned, cfg>>

\* ------------------------------------------------------------------------

Next ==
    \/ \E r \in Requests : Call(r)
    \/ \E r \in Requests : EncodePrompt(r)
    \/ \E r \in Requests : SetTimesteps(r)
    \/ \E r \in Requests : PrepareLatents(r)
    \/ \E r \in Requests : EnterLoop(r)
    \/ \E r \in Requests : PredictNoise(r)
    \/ \E r \in Requests : SchedulerStep(r)
    \/ \E r \in Requests : Decode(r)

\* ------------------------------------------------------------------------
\* properties

Started(q) == q.pc # "not_started"

InLoop(q) == q.pc \in {"running", "predicted", "completed"}

PromptValid(q) == q.prompt \in {"str", "list"}

ResolutionValid(q) == q.height % 8 = 0 /\ q.width % 8 = 0

StrengthOutOfRange(q) == q.init_strength < 0 \/ q.init_strength > StrengthDen

OffsetOf == IF cfg.accepts_offset THEN 1 ELSE 0

Count(seq, name) == Len(SelectSeq(seq, LAMBDA x : x = name))

\* C1: a valid call with no seed image starts the loop at t_start = 0, walks
\* the whole schedule and completes; it never ends in an error.
C1_PureNoiseRunCompletes ==
    \A r \in Requests :
        LET q == rq[r] IN
        (PromptValid(q) /\ ResolutionValid(q) /\ ~ HasInitImage(q)
           /\ ~ StrengthOutOfRange(q) /\ q.num_inference_steps >= 1) =>
            /\ q.err.type = "none"
            /\ InLoop(q) => q.t_start = 0
            /\ q.pc = "completed" =>
                  Len(q.step_outs) = Len(scheduler.timesteps)

\* C2 (as stated): with a seed image and init_strength = 1 the loop starts at
\* t_start = 0 and executes as many steps as the schedule has entries.
C2_FullStrengthWalksFullSchedule ==
    \A r \in Requests :
        LET q == rq[r] IN
        (HasInitImage(q) /\ q.init_strength = StrengthDen
           /\ q.num_inference_steps >= 1 /\ InLoop(q)) =>
            /\ q.t_start = 0
            /\ q.pc = "completed" =>
                  Len(q.step_outs) = Len(scheduler.timesteps)

\* C2 (amended): with a seed image and init_strength = 1 the loop starts at
\* t_start = offset and executes (length of the schedule - offset) steps: the
\* full schedule when the integrator takes no offset, all but its first entry
\* when it does.
C2_FullStrengthStartsAtOffset ==
    \A r \in Requests :
        LET q == rq[r] IN
        (HasInitImage(q) /\ q.init_strength = StrengthDen
           /\ q.num_inference_steps >= 1 /\ InLoop(q)) =>
            /\ q.t_start = OffsetOf
            /\ Len(q.loop_timesteps) = Len(scheduler.timesteps) - OffsetOf
            /\ q.pc = "completed" =>
                  Len(q.step_outs) = Len(scheduler.timesteps) - OffsetOf

C2_Witness ==
    \E r \in Requests :
        /\ rq[r].pc = "completed"
        /\ HasInitImage(rq[r])
        /\ rq[r].init_strength = StrengthDen
        /\ rq[r].num_inference_steps >= 2
        /\ cfg.accepts_offset
        /\ Len(rq[r].step_outs) = rq[r].num_inference_steps - 1

\* the integers nearest to a / d
Nearest(a, d) ==
    {k \in 0..(a + 1) : 2 * (k * d - a) <= d /\ 2 * (a - k * d) <= d}

\* C3 (as stated): in seed-image mode init_timestep is
\* min(round(num_inference_steps * init_strength) + offset,
\* num_inference_steps), round being rounding to a nearest integer.
C3_InitTimestepRounds ==
    \A r \in Requests :
        LET q == rq[r] IN
        (HasInitImage(q) /\ q.init_timestep # Unbound) =>
            \E k \in Nearest(q.num_inference_steps * q.init_strength,
                             StrengthDen) :
                q.init_timestep = Min(k + OffsetOf, q.num_inference_steps)

\* C3 (amended): in seed-image mode init_timestep is
\* min(trunc(num_inference_steps * init_strength) + offset,
\* num_inference_steps), trunc dropping the fractional part.
C3_InitTimestepTruncates ==
    \A r \in Requests :
        LET q == rq[r] IN
        (HasInitImage(q) /\ q.init_timestep # Unbound) =>
            \E k \in 0..q.num_inference_steps :
                /\ k * StrengthDen <= q.num_inference_steps * q.init_strength
                /\ q.num_inference_steps * q.init_strength
                      < (k + 1) * StrengthDen
                /\ q.init_timestep = Min(k + OffsetOf, q.num_inference_steps)

C3_Witness ==
    \E r \in Requests :
        /\ rq[r].pc = "latents_ready"
        /\ HasInitImage(rq[r])
        /\ rq[r].init_timestep # Unbound
        /\ (2 * rq[r].num_inference_steps * rq[r].init_strength)
              % (2 * StrengthDen) > StrengthDen

StrengthError(q) ==
    [type |-> "ValueError", about |-> "init_strength",
     value |-> <<q.init_strength>>]

\* C4 (as stated): a call whose init_strength is outside [0,1], with or
\* without a seed image, fails with a ValueError citing the value before any
\* collaborator is invoked.
C4_StrengthOutOfRangeFailsFast ==
    \A r \in Requests :
        LET q == rq[r] IN
        (Started(q) /\ PromptValid(q) /\ ResolutionValid(q)
           /\ StrengthOutOfRange(q)) =>
            /\ q.pc = "error"
            /\ q.err = StrengthError(q)
            /\ q.log = <<>>

\* C4 (amended): a call with a seed image whose init_strength is outside
\* [0,1] fails with a ValueError citing the value before any collaborator is
\* invoked; without a seed image init_strength is not checked.
C4_SeedStrengthOutOfRangeFailsFast ==
    \A r \in Requests :
        LET q == rq[r] IN
        (Started(q) /\ PromptValid(q) /\ ResolutionValid(q)
           /\ StrengthOutOfRange(q)) =>
            IF HasInitImage(q)
            THEN /\ q.pc = "error"
                 /\ q.err = StrengthError(q)
                 /\ q.log = <<>>
            ELSE q.err.about # "init_strength"

C4_Witness ==
    \E r \in Requests :
        /\ rq[r].pc = "error"
        /\ HasInitImage(rq[r])
        /\ rq[r].init_strength < 0
        /\ rq[r].err = StrengthError(rq[r])

\* C5: with a valid prompt the divisibility check fails if and only if a seed
\* image is supplied and height or width is not a multiple of 8.
C5_HeightWidthRejectedIffSeedImage ==
    \A r \in Requests :
        LET q == rq[r] IN
        (Started(q) /\ PromptValid(q)) =>
            ((q.err.type = "ValueError" /\ q.err.about = "height_width")
               <=> (HasInitImage(q) /\ ~ ResolutionValid(q)))

\* C6 (as stated): a call whose prompt is neither a string nor a list fails
\* with a ValueError before any collaborator is invoked and before any state
\* of the pipeline changes, whatever the other options are.
C6_InvalidPromptFailsBeforeAnything ==
    \A r \in Requests :
        LET q == rq[r] IN
        (Started(q) /\ ~ PromptValid(q)) =>
            /\ q.pc = "error"
            /\ q.err.type = "ValueError" /\ q.err.about = "prompt"
            /\ q.log = <<>>
            /\ device = "cpu"
            /\ scheduler = [timesteps |-> <<>>, sigmas |-> <<>>]

\* C6 (amended): a call whose prompt is neither a string nor a list fails
\* with a ValueError before any collaborator is invoked and before the
\* scheduler is touched; the one thing that precedes the error is the legacy
\* torch_device option, which, when given, has warned and moved the pipeline
\* to the requested device.
C6_InvalidPromptInvokesNoCollaborator ==
    \A r \in Requests :
        LET q == rq[r] IN
        (Started(q) /\ ~ PromptValid(q)) =>
            /\ q.pc = "error"
            /\ q.err.type = "ValueError" /\ q.err.about = "prompt"
            /\ q.log = <<>>
            /\ scheduler = [timesteps |-> <<>>, sigmas |-> <<>>]
            /\ IF q.torch_device = "absent"
               THEN device = "cpu" /\ ~ warned
               ELSE /\ warned
                    /\ device = IF q.torch_device = "None" /\ cfg.cuda_available
                                THEN "cuda" ELSE "cpu"

C6_Witness ==
    \E r \in Requests :
        /\ rq[r].pc = "error"
        /\ rq[r].prompt = "int"
        /\ rq[r].err.about = "prompt"
        /\ rq[r].torch_device = "None"
        /\ device = "cuda"

\* C7: with a seed image and init_strength = 0 no denoising step is applied
\* (t_start = num_inference_steps, empty walk) and the noise added to the
\* encoded seed is that of the last, least noisy position of the schedule.
C7_ZeroStrengthKeepsSeedLatent ==
    \A r \in Requests :
        LET q == rq[r] IN
        (HasInitImage(q) /\ q.init_strength = 0 /\ q.num_inference_steps >= 1
           /\ q.pc \in {"latents_ready", "running", "predicted", "completed"})
        =>
            /\ q.noise_index >= q.num_inference_steps - 1
            /\ InLoop(q) => /\ q.t_start = q.num_inference_steps
                            /\ q.loop_timesteps = <<>>
            /\ q.pc = "completed" => q.step_outs = <<>>

\* the latent the predictor is to see at the step in progress
ReferenceInput(q) ==
    IF cfg.isLMS
    THEN ScaleModelInput(q.latents, scheduler.sigmas[q.t_index + 1])
    ELSE q.latents

ReferenceCond(q) == [j \in 1..q.batch_size |-> TextEncoder(Prompts(q)[j])]

\* C8: at every step the noise prediction handed to the integrator is, for
\* guidance_scale <= 1, the predictor's output on the un-duplicated latent
\* with the conditional embedding (the empty prompt is never encoded) and,
\* for guidance_scale > 1, uncond + guidance_scale * (cond - uncond) from one
\* predictor call on the latent duplicated, embeddings [uncond; cond].
C8_GuidedPredictionMatchesReference ==
    \A r \in Requests :
        LET q    == rq[r]
            x    == ReferenceInput(q)
            cond == ReferenceCond(q)
            unc  == [j \in 1..q.batch_size |-> TextEncoder(0)]
        IN
        q.pc = "predicted" =>
            /\ Len(q.noise_pred) = q.batch_size
            /\ Count(q.log, "unet") = q.i + 1
            /\ IF q.guidance_scale <= 2
               THEN /\ Count(q.log, "tokenizer") = 1
                    /\ q.latent_model_input = x
                    /\ q.text_embeddings = cond
                    /\ \A j \in 1..q.batch_size :
                          q.noise_pred[j] = UnetSample(x[j], q.t, cond[j])
               ELSE /\ Count(q.log, "tokenizer") = 2
                    /\ q.latent_model_input = x \o x
                    /\ q.text_embeddings = unc \o cond
                    /\ \A j \in 1..q.batch_size :
                          2 * q.noise_pred[j] =
                             2 * UnetSample(x[j], q.t, unc[j])
                             + q.guidance_scale
                                 * (UnetSample(x[j], q.t, cond[j])
                                      - UnetSample(x[j], q.t, unc[j]))

C8_Witness ==
    \E r \in Requests :
        /\ rq[r].pc = "predicted"
        /\ rq[r].guidance_scale > 2
        /\ rq[r].batch_size = 2
        /\ rq[r].i >= 1
        /\ rq[r].noise_pred[1] # rq[r].noise_pred[2]

LoopCalls ==
    {"unet", "scheduler.step", "vae.decode", "feature_extractor",
     "safety_checker"}

RECURSIVE Iterations(_)
Iterations(k) ==
    IF k = 0 THEN <<>> ELSE Iterations(k - 1) \o <<"unet", "scheduler.step">>

\* C9: a run that enters the loop goes running(step_index) -> completed with
\* step_index rising by 1 from t_start to the end of the schedule; each step
\* is one predictor call then one integrator call, the integrator receives
\* the latent the previous step returned (the initial latent at first) and
\* its result becomes the current latent; the decoder runs once, after the
\* last schedule entry was stepped, followed by the safety checker.
C9_LoopIsSequential ==
    \A r \in Requests :
        LET q == rq[r] IN
        InLoop(q) =>
            /\ q.i \in 0..Len(q.loop_timesteps)
            /\ SelectSeq(q.log, LAMBDA x : x \in LoopCalls) =
                  Iterations(q.i)
                    \o (IF q.pc = "predicted" THEN <<"unet">> ELSE <<>>)
                    \o (IF q.pc = "completed"
                        THEN <<"vae.decode", "feature_extractor",
                               "safety_checker">>
                        ELSE <<>>)
            /\ Len(q.step_args) = q.i /\ Len(q.step_outs) = q.i
            /\ \A j \in 1..q.i :
                  q.step_args[j] =
                     IF j = 1 THEN q.init_latents ELSE q.step_outs[j - 1]
            /\ q.pc # "completed" =>
                  q.latents =
                     IF q.i = 0 THEN q.init_latents ELSE q.step_outs[q.i]
            /\ q.pc = "predicted" =>
                  /\ q.t_index = q.t_start + q.i
                  /\ q.t = scheduler.timesteps[q.t_index + 1]
            /\ q.pc = "completed" =>
                  q.t_start + q.i =
                     Max(q.t_start, Len(scheduler.timesteps))

C9_Witness ==
    \E r \in Requests :
        /\ rq[r].pc = "completed"
        /\ rq[r].i >= 2
        /\ rq[r].step_args[2] # rq[r].init_latents

\* C10: two requests interleaved on one pipeline object share no mutable
\* state: each iterates the schedule built for its own num_inference_steps,
\* whatever the other request does in between.
C10_RequestsShareNoSchedule ==
    \A r \in Requests :
        LET q == rq[r] IN
        InLoop(q) =>
            q.loop_timesteps =
               PySliceFrom(Timesteps(q.num_inference_steps, OffsetOf),
                           q.t_start)


Spec == Init /\ [][Next]_vars

SpecInterleaved == InitInterleaved /\ [][Next]_vars
====
